---- MODULE Spec2Model ----
(***************************************************************************)
(* Meeting API (src/main.py): a FastAPI service that keeps a collection of *)
(* meeting records in one JSON file, data.json.                            *)
(*                                                                         *)
(* Spec      : requests handled one at a time (each handler an atomic      *)
(*             step), storage faults inside write_data, and an outside     *)
(*             writer that may replace or remove the file.                 *)
(* SpecProc  : server processes that each run one handler at a time and    *)
(*             interleave with each other at the file operations.          *)
(***************************************************************************)
EXTENDS Naturals, Sequences, FiniteSets

VARIABLES file,      \* data.json: [kind, meetings]
          issued,    \* how many identifiers uuid.uuid4() has handed out
          resp,      \* the last request's operation and its status code
          untouched, \* no bulk replace and no outside write so far
          kept,      \* the record the last create returned, until a request
                     \* updates or deletes its id or replaces the store
          proc,      \* SpecProc: each server process's handler in progress
          clock      \* SpecProc: file operations done so far

vars == <<file, issued, resp, untouched, kept, proc, clock>>

\* ------------------------------------------------------------------ bounds
MaxCreates == 2   \* identifiers uuid4 can hand out
MaxLen == 2       \* records in the collection a create may extend

\* ------------------------------------------------------------------ values
\* Python's None / JSON null; no request string equals it.
Null == "<null>"
\* str(uuid.uuid4()): fresh on every call; the n-th call yields Uuid(n).
Uuid(n) == IF n = 1 THEN "u1" ELSE IF n = 2 THEN "u2" ELSE IF n = 3 THEN "u3" ELSE "u4"
Issued(n) == {Uuid(i) : i \in 1..n}

Titles == {"A", "B"}

\* A client knows the identifiers issued so far and its own strings.
ClientIds(n) == Issued(n) \cup {"c"}
NoRecord == [k \in {} |-> Null]

\* MeetingCreate's declared fields (lines 41-46); all but title default to None.
MeetingCreateFields == {"title", "date", "time", "participants", "agenda", "notes"}

\* ------------------------------------------------------------ persistence
Doc(ms) == [kind |-> "doc", meetings |-> ms]
NonDoc(k) == [kind |-> k, meetings |-> <<>>]

\* ensure_data_file: an absent file is created holding {"meetings": []}.
ensure_data_file(f) == IF f.kind = "absent" THEN Doc(<<>>) ELSE f

\* A faulty variant of read_data: text that is not JSON is an error like any
\* other (no except json.JSONDecodeError). C7 tells the two apart.
read_data_strict(f) ==
    LET g == ensure_data_file(f) IN
    CASE g.kind \in {"empty", "blank"} ->
             [status |-> 200, isDoc |-> TRUE, meetings |-> <<>>]
      [] g.kind \in {"garbage", "undecodable"} ->
             [status |-> 500, isDoc |-> FALSE, meetings |-> <<>>]
      [] g.kind = "other" ->
             [status |-> 200, isDoc |-> FALSE, meetings |-> <<>>]
      [] OTHER ->
             [status |-> 200, isDoc |-> TRUE, meetings |-> g.meetings]

\* read_data's result on the file as ensure_data_file left it.
\*   empty / blank content      -> {"meetings": []}            (line 90)
\*   text that is not JSON      -> {"meetings": []}            (line 93)
\*   bytes that are not UTF-8   -> f.read() raises, 500        (line 95)
\*   JSON that is no document   -> returned as is ("other")
read_data(f) ==
    LET g == ensure_data_file(f) IN
    CASE g.kind \in {"empty", "blank", "garbage"} ->
             [status |-> 200, isDoc |-> TRUE, meetings |-> <<>>]
      [] g.kind = "undecodable" ->
             [status |-> 500, isDoc |-> FALSE, meetings |-> <<>>]
      [] g.kind = "other" ->
             [status |-> 200, isDoc |-> FALSE, meetings |-> <<>>]
      [] OTHER ->
             [status |-> 200, isDoc |-> TRUE, meetings |-> g.meetings]

\* read_data yields a document: a handler can index data['meetings'].
Readable(f) == read_data(f).status = 200 /\ read_data(f).isDoc

\* Storage faults write_data can meet: none, open() fails, json.dump fails
\* after open(..., 'w') has truncated the file.
Faults == {"none", "open", "dump"}

\* write_data: the possible outcomes [file, status] of writing ms over f.
write_data(f, ms, fault) ==
    CASE fault = "none" -> {[file |-> Doc(ms), status |-> 200]}
      [] fault = "open" -> {[file |-> f, status |-> 500]}
      [] OTHER -> {[file |-> NonDoc(k), status |-> 500] : k \in {"empty", "garbage"}}

\* ------------------------------------------------------------ dict helpers
\* meeting.get('id')
Get(m, k) == IF k \in DOMAIN m THEN m[k] ELSE Null
\* dict.update
DictUpdate(m, u) ==
    [k \in DOMAIN m \cup DOMAIN u |-> IF k \in DOMAIN u THEN u[k] ELSE m[k]]
\* meeting.model_dump() of a MeetingCreate: declared fields (None when not
\* given) and the extra keys.
model_dump(body) ==
    [k \in MeetingCreateFields \cup DOMAIN body |->
        IF k \in DOMAIN body THEN body[k] ELSE Null]
\* MeetingUpdate's declared fields (lines 54-59), all optional.
MeetingUpdateFields == {"title", "date", "time", "participants", "agenda", "notes"}
\* A faulty variant of the update's dump: model_dump() without exclude_unset,
\* which names every declared field. C1 tells the two apart.
model_dump_with_unset(body) ==
    [k \in MeetingUpdateFields \cup DOMAIN body |->
        IF k \in DOMAIN body THEN body[k] ELSE Null]
\* meeting_update.model_dump(exclude_unset=True): the keys the body set.
model_dump_exclude_unset(body) == [k \in DOMAIN body |-> body[k]]

\* Index of the first record whose id matches, 0 when none does.
FirstMatch(ms, id) ==
    IF \E i \in 1..Len(ms) : Get(ms[i], "id") = id
    THEN CHOOSE i \in 1..Len(ms) :
            /\ Get(ms[i], "id") = id
            /\ \A j \in 1..(i - 1) : Get(ms[j], "id") # id
    ELSE 0

\* A faulty variant of the delete's filter: only the first match is dropped,
\* as update_meeting stops at the first match. C2 tells the two apart.
Without_first_only(ms, id) ==
    LET i == FirstMatch(ms, id) IN
    IF i = 0 THEN ms ELSE SubSeq(ms, 1, i - 1) \o SubSeq(ms, i + 1, Len(ms))

RECURSIVE Without(_, _)
\* [m for m in meetings if m.get('id') != meeting_id]
Without(ms, id) ==
    IF ms = <<>> THEN <<>>
    ELSE IF Get(Head(ms), "id") # id
         THEN <<Head(ms)>> \o Without(Tail(ms), id)
         ELSE Without(Tail(ms), id)

\* ---------------------------------------------------------------- requests
Response(op, status, data, meetings) ==
    [op |-> op, status |-> status, data |-> data, meetings |-> meetings]
Outcome(f, n, r) == [file |-> f, issued |-> n, resp |-> r]
Fault(op, status) == Response(op, status, NoRecord, <<>>)
\* What the variable resp keeps of a response.
Seen(r) == [op |-> r.op, status |-> r.status]

\* Request validation done by the framework before a handler runs.
\* A faulty variant of MeetingCreate: title Optional like the other fields.
\* C6 tells the two apart.
MeetingCreateValid_title_optional(body) == TRUE
\* MeetingCreate: title is a required str.
MeetingCreateValid(body) == "title" \in DOMAIN body /\ body["title"] # Null
\* MeetingsData: meetings is a required list of dicts.
MeetingsDataValid(hasKey) == hasKey
\* hasattr(data, 'meetings') on a validated MeetingsData instance.
hasattr_meetings(hasKey) == TRUE

\* GET /api/meetings: the outcomes of one request on file f.
get_all_meetings(f, n) ==
    LET r == read_data(f)
        g == ensure_data_file(f) IN
    IF r.status = 200 /\ r.isDoc
    THEN {Outcome(g, n, Response("list", 200, NoRecord, r.meetings))}
    ELSE {Outcome(g, n, Fault("list", 500))}

\* POST /api/meetings
create_meeting(f, n, body, fault) ==
    LET r == read_data(f)
        g == ensure_data_file(f)
        meeting_id == Uuid(n + 1)
        new_meeting == DictUpdate(model_dump(body), [k \in {"id"} |-> meeting_id])
        ms == Append(r.meetings, new_meeting) IN
    IF ~MeetingCreateValid(body) THEN {Outcome(f, n, Fault("create", 422))}
    ELSE IF r.status # 200 THEN {Outcome(g, n, Fault("create", 500))}
    ELSE IF ~r.isDoc THEN {Outcome(g, n + 1, Fault("create", 500))}
    ELSE {Outcome(w.file, n + 1,
                  IF w.status = 200 THEN Response("create", 200, new_meeting, <<>>)
                  ELSE Fault("create", 500)) : w \in write_data(g, ms, fault)}

\* GET /api/meetings/{meeting_id}
get_meeting_by_id(f, n, meeting_id) ==
    LET r == read_data(f)
        g == ensure_data_file(f)
        i == FirstMatch(r.meetings, meeting_id) IN
    IF r.status # 200 \/ ~r.isDoc THEN {Outcome(g, n, Fault("get", 500))}
    ELSE IF i = 0 THEN {Outcome(g, n, Fault("get", 404))}
    ELSE {Outcome(g, n, Response("get", 200, r.meetings[i], <<>>))}

\* PUT /api/meetings/{meeting_id}
update_meeting(f, n, meeting_id, body, fault) ==
    LET r == read_data(f)
        g == ensure_data_file(f)
        i == FirstMatch(r.meetings, meeting_id)
        update_data == model_dump_exclude_unset(body)
        ms == [r.meetings EXCEPT ![i] = DictUpdate(r.meetings[i], update_data)] IN
    IF r.status # 200 \/ ~r.isDoc THEN {Outcome(g, n, Fault("update", 500))}
    ELSE IF i = 0 THEN {Outcome(g, n, Fault("update", 404))}
    ELSE {Outcome(w.file, n,
                  IF w.status = 200 THEN Response("update", 200, ms[i], <<>>)
                  ELSE Fault("update", 500)) : w \in write_data(g, ms, fault)}

\* DELETE /api/meetings/{meeting_id}
delete_meeting(f, n, meeting_id, fault) ==
    LET r == read_data(f)
        g == ensure_data_file(f)
        ms == Without(r.meetings, meeting_id) IN
    IF r.status # 200 \/ ~r.isDoc THEN {Outcome(g, n, Fault("delete", 500))}
    ELSE IF Len(ms) = Len(r.meetings) THEN {Outcome(g, n, Fault("delete", 404))}
    ELSE {Outcome(w.file, n, Fault("delete", w.status)) : w \in write_data(g, ms, fault)}

\* A faulty variant of the bulk replace: the request's records are added to
\* the stored ones. C5 tells the two apart.
save_all_meetings_append(f, n, hasKey, coll, fault) ==
    IF ~MeetingsDataValid(hasKey) THEN {Outcome(f, n, Fault("bulk", 422))}
    ELSE {Outcome(w.file, n, Fault("bulk", w.status)) :
              w \in write_data(f, read_data(f).meetings \o coll, fault)}

\* POST /api/meetings/bulk
save_all_meetings(f, n, hasKey, coll, fault) ==
    IF ~MeetingsDataValid(hasKey) THEN {Outcome(f, n, Fault("bulk", 422))}
    ELSE IF ~hasattr_meetings(hasKey) THEN {Outcome(f, n, Fault("bulk", 400))}
    ELSE {Outcome(w.file, n, Fault("bulk", w.status)) : w \in write_data(f, coll, fault)}

\* Request inputs. A body is the mapping of the keys the request carries:
\* title and agenda are declared fields, id is an extra key of MeetingCreate
\* and of MeetingUpdate (Config.extra = "allow").
PathIds == ClientIds(issued)
CreateBodies == {NoRecord, [id |-> "c"], [title |-> "A"], [title |-> "A", id |-> "c"]}
\* An update may name a key with null, an unknown key, and as id the empty
\* string or an identifier the service has issued.
UpdateBodies ==
    {NoRecord, [agenda |-> Null], [title |-> "B", room |-> "R"]}
        \cup {[id |-> x] : x \in {""} \cup (Issued(issued) \cap {Uuid(1)})}
\* Collections a bulk replace may carry: records with and without id, two
\* records with one id.
BulkColls ==
    {<<>>,
     <<[id |-> "c", title |-> "A", agenda |-> "G"]>>,
     <<[id |-> "c", title |-> "A", agenda |-> "G"], [id |-> "c", title |-> "B"]>>,
     <<[title |-> "B"], [id |-> "c", title |-> "A", agenda |-> "G"]>>}

\* ------------------------------------------------------- server processes
\* The handlers are coroutines without an await: a process runs one handler
\* from its first line to its last before it takes another request. Nothing
\* orders the file operations of two processes that serve the same app.
Procs == {"w1", "w2"}
ProcBodies == {[title |-> t] : t \in Titles}
Idle == [pc |-> "idle", data |-> <<>>, new |-> NoRecord, rd |-> 0, op |-> 0, dm |-> 0]

\* open(DATA_FILE, 'w'): the file is truncated.
open_w(f) == NonDoc("empty")
\* A faulty variant of the dump: the record is added to what the file holds.
\* C10 tells the two apart.
json_dump_onto(f, ms) ==
    IF f.kind = "doc" THEN {Doc(f.meetings \o <<ms[Len(ms)]>>)} ELSE {Doc(ms)}
\* json.dump(data, f) and close: the text of ms goes to the start of the
\* file. Over an empty file that is the whole content; over text another
\* process wrote meanwhile, a longer tail of that text may remain behind it.
json_dump(f, ms) ==
    IF f.kind = "empty" THEN {Doc(ms)} ELSE {Doc(ms), NonDoc("garbage")}

\* --------------------------------------------------------------- behaviour
Init ==
    /\ file \in {NonDoc("absent"), Doc(<<>>)}
    /\ issued = 0
    /\ resp = Seen(Fault("none", 0))
    /\ untouched = TRUE
    /\ kept = NoRecord
    /\ proc = [p \in Procs |-> Idle]
    /\ clock = 0

\* The request has been handled with outcome o.
Handled(o) ==
    /\ file' = o.file
    /\ issued' = o.issued
    /\ resp' = Seen(o.resp)
    /\ UNCHANGED <<proc, clock>>

\* kept after a request on path id `id`.
KeptUnless(id) == IF kept # NoRecord /\ kept["id"] = id THEN NoRecord ELSE kept

ListMeetings ==
    \E o \in get_all_meetings(file, issued) :
        /\ Handled(o)
        /\ UNCHANGED <<untouched, kept>>

CreateMeeting ==
    \E body \in CreateBodies, fault \in Faults :
        /\ issued < MaxCreates
        /\ Len(file.meetings) < MaxLen
        /\ \E o \in create_meeting(file, issued, body, fault) :
               /\ Handled(o)
               /\ kept' = IF o.resp.status = 200 THEN o.resp.data ELSE kept
        /\ UNCHANGED untouched

GetMeeting ==
    \E id \in PathIds :
        /\ \E o \in get_meeting_by_id(file, issued, id) : Handled(o)
        /\ UNCHANGED <<untouched, kept>>

UpdateMeeting ==
    \E id \in PathIds, body \in UpdateBodies, fault \in Faults :
        /\ \E o \in update_meeting(file, issued, id, body, fault) : Handled(o)
        /\ kept' = KeptUnless(id)
        /\ UNCHANGED untouched

DeleteMeeting ==
    \E id \in PathIds, fault \in Faults :
        /\ \E o \in delete_meeting(file, issued, id, fault) : Handled(o)
        /\ kept' = KeptUnless(id)
        /\ UNCHANGED untouched

SaveAllMeetings ==
    \E hasKey \in BOOLEAN, coll \in BulkColls, fault \in Faults :
        /\ hasKey \/ coll = <<>>
        /\ \E o \in save_all_meetings(file, issued, hasKey, coll, fault) : Handled(o)
        /\ untouched' = (untouched /\ ~hasKey)
        /\ kept' = IF hasKey THEN NoRecord ELSE kept

\* Something other than the service writes or removes data.json.
OutsideKinds == {"absent", "empty", "blank", "garbage", "undecodable", "other"}
OutsideWrite ==
    \E k \in OutsideKinds :
        /\ file' = NonDoc(k)
        /\ resp' = Seen(Fault("outside", 0))
        /\ untouched' = FALSE
        /\ kept' = NoRecord
        /\ UNCHANGED <<issued, proc, clock>>

Next ==
    \/ ListMeetings
    \/ CreateMeeting
    \/ GetMeeting
    \/ UpdateMeeting
    \/ DeleteMeeting
    \/ SaveAllMeetings
    \/ OutsideWrite

Spec == Init /\ [][Next]_vars

\* create_meeting by process p, one file operation at a time.
\* Lines 161-171: read_data, uuid4, model_dump, append.
ProcRead(p) ==
    \E body \in ProcBodies :
        LET r == read_data(file)
            new_meeting == DictUpdate(model_dump(body),
                                      [k \in {"id"} |-> Uuid(issued + 1)]) IN
        /\ proc[p].pc = "idle"
        /\ issued < MaxCreates
        /\ Readable(file)
        /\ file' = ensure_data_file(file)
        /\ issued' = issued + 1
        /\ clock' = clock + 1
        /\ proc' = [proc EXCEPT ![p] = [pc |-> "read", data |-> r.meetings,
                                        new |-> new_meeting, rd |-> clock + 1,
                                        op |-> 0, dm |-> 0]]
        /\ UNCHANGED <<resp, untouched, kept>>

\* Line 105.
ProcOpen(p) ==
    /\ proc[p].pc = "read"
    /\ file' = open_w(file)
    /\ clock' = clock + 1
    /\ proc' = [proc EXCEPT ![p].pc = "opened", ![p].op = clock + 1]
    /\ UNCHANGED <<issued, resp, untouched, kept>>

\* Lines 106-107 and the 200 response of lines 176-180.
ProcDump(p) ==
    /\ proc[p].pc = "opened"
    /\ file' \in json_dump(file, Append(proc[p].data, proc[p].new))
    /\ clock' = clock + 1
    /\ proc' = [proc EXCEPT ![p].pc = "done", ![p].dm = clock + 1]
    /\ UNCHANGED <<issued, resp, untouched, kept>>

\* The process is free for its next request.
ProcReturn(p) ==
    /\ proc[p].pc = "done"
    /\ proc' = [proc EXCEPT ![p] = Idle]
    /\ UNCHANGED <<file, issued, resp, untouched, kept, clock>>

NextProc ==
    \E p \in Procs :
        \/ ProcRead(p)
        \/ ProcOpen(p)
        \/ ProcDump(p)
        \/ ProcReturn(p)

SpecProc == Init /\ [][NextProc]_vars

\* ------------------------------------------------------------------ claims
IdsOf(ms) == {Get(ms[i], "id") : i \in 1..Len(ms)}

\* C1: an update that succeeds on an id present in the collection changes only
\* the first record with that id, and in it only the keys of the request body
\* (which take the body's values); every other key, every other record (later
\* records with the same id too), the order and the length stay as they were.
\* Without a storage fault such an update succeeds.
C1_UpdateMergesOnlyGivenKeys ==
    \A id \in PathIds, body \in UpdateBodies, fault \in Faults :
        LET old == read_data(file).meetings IN
        (Readable(file) /\ id \in IdsOf(old)) =>
            \A o \in update_meeting(file, issued, id, body, fault) :
                LET new == o.file.meetings
                    i == CHOOSE x \in 1..Len(old) :
                            /\ Get(old[x], "id") = id
                            /\ \A y \in 1..Len(old) : Get(old[y], "id") = id => x <= y
                IN
                /\ fault = "none" => o.resp.status = 200
                /\ o.resp.status = 200 =>
                    /\ o.file.kind = "doc"
                    /\ Len(new) = Len(old)
                    /\ \A j \in 1..Len(old) : j # i => new[j] = old[j]
                    /\ DOMAIN new[i] = DOMAIN old[i] \cup DOMAIN body
                    /\ \A k \in DOMAIN body : new[i][k] = body[k]
                    /\ \A k \in DOMAIN old[i] \ DOMAIN body : new[i][k] = old[i][k]
                    /\ o.resp.data = new[i]

\* An update has rewritten the first of two records that share an id, with a
\* body that named the title only: the agenda it had is still there.
C1_Witness ==
    /\ resp.op = "update" /\ resp.status = 200
    /\ file = Doc(<<[id |-> "c", title |-> "B", agenda |-> "G", room |-> "R"],
                    [id |-> "c", title |-> "B"]>>)

C3_IdsUniqueAndNonEmpty ==
    (untouched /\ file.kind = "doc") =>
        /\ \A i \in 1..Len(file.meetings) :
               Get(file.meetings[i], "id") \notin {Null, ""}
        /\ \A i, j \in 1..Len(file.meetings) :
               i # j => Get(file.meetings[i], "id") # Get(file.meetings[j], "id")

\* C4: a create with a title appends one record, the request's fields under a
\* fresh id, and the record it returned is what a get of its id returns as
\* long as no request has updated or deleted that id or replaced the store.
C4_CreateThenGetRoundTrip ==
    /\ \A body \in CreateBodies :
           (Readable(file) /\ MeetingCreateValid(body)) =>
               \A o \in create_meeting(file, issued, body, "none") :
                   /\ o.resp.status = 200
                   /\ Len(o.file.meetings) = Len(read_data(file).meetings) + 1
                   /\ o.file.meetings[Len(o.file.meetings)] = o.resp.data
                   /\ o.resp.data["id"] \notin IdsOf(read_data(file).meetings) \cup {"c"}
    /\ kept # NoRecord =>
           \A g \in get_meeting_by_id(file, issued, kept["id"]) :
               g.resp.status = 200 /\ g.resp.data = kept

\* C5: a bulk replace that succeeds leaves the file holding exactly the
\* collection of the request, whatever it held before; a list then returns
\* that collection and a get of an id only the old collection had answers 404.
\* Without a storage fault a bulk replace with a meetings key succeeds.
C5_BulkReplaceOverwrites ==
    \A coll \in BulkColls, fault \in Faults :
        \A o \in save_all_meetings(file, issued, TRUE, coll, fault) :
            /\ fault = "none" => o.resp.status = 200
            /\ o.resp.status = 200 =>
                /\ o.file = Doc(coll)
                /\ \A l \in get_all_meetings(o.file, o.issued) :
                       l.resp.status = 200 /\ l.resp.meetings = coll
                /\ \A id \in PathIds \ IdsOf(coll) :
                       \A g \in get_meeting_by_id(o.file, o.issued, id) :
                           g.resp.status = 404

\* A bulk replace has put a one-record collection where an issued id was
\* stored before.
C5_Witness ==
    /\ resp.op = "bulk" /\ resp.status = 200
    /\ issued >= 1
    /\ file.kind = "doc" /\ Len(file.meetings) = 1
    /\ Uuid(1) \notin IdsOf(file.meetings)

\* C6: a create without a title is answered 422 and the file, absent or
\* present, is what it was.
C6_CreateWithoutTitleRejected ==
    \A body \in CreateBodies, fault \in Faults :
        "title" \notin DOMAIN body =>
            \A o \in create_meeting(file, issued, body, fault) :
                o.resp.status = 422 /\ o.file = file /\ o.issued = issued

\* A create has been rejected while the file did not exist, and it still
\* does not.
C6_Witness == resp.op = "create" /\ resp.status = 422 /\ file.kind = "absent"

MutatingOps == {"create", "update", "delete", "bulk"}
\* C8: after a mutating request, failed or not, the file holds the document
\* it held before the request or the complete new document.
C8_WriteAllOrNothing ==
    [][resp'.op \in MutatingOps =>
          \/ file' \in {file, ensure_data_file(file)}
          \/ resp'.status = 200 /\ file'.kind = "doc"]_vars

\* C9: a bulk replace whose body has no meetings key is answered 400 and the
\* file is what it was.
C9_BulkWithoutMeetingsIs400 ==
    \A fault \in Faults :
        \A o \in save_all_meetings(file, issued, FALSE, <<>>, fault) :
            o.resp.status = 400 /\ o.file = file

====
